---- MODULE Spec2Model ----
(***************************************************************************)
(* Simple-Bookkeeping: the transaction list of App.tsx (startup load, save *)
(* effect, add, delete, asynchronous import with merge by id), the storage *)
(* service, and the range / totals / trend computations of the Statistics  *)
(* component.                                                              *)
(*                                                                         *)
(* Representation.                                                         *)
(*  - A JavaScript timestamp (ms since epoch, local time, no DST jumps) is *)
(*    the pair [day, ms]: day = whole local days since 2022-01-01 and      *)
(*    ms = millisecond of that day, so that day * 86400000 + ms is the     *)
(*    number the code compares.  Comparisons of timestamps are             *)
(*    lexicographic on the pair.                                           *)
(*  - A field that a JSON object does not carry reads as Missing           *)
(*    (JavaScript undefined).  A JSON null array element is NullItem.      *)
(*  - Amounts are integers (currency units without rounding).              *)
(***************************************************************************)
EXTENDS Integers, Sequences, FiniteSets, TLC

VARIABLES expenses, store, pc, pending, alert, imported, now,
          range, currentDate, viewMode,
          transactionType, selectedCategory, listCurrentDate

vars == <<expenses, store, pc, pending, alert, imported, now,
          range, currentDate, viewMode,
          transactionType, selectedCategory, listCurrentDate>>

appVars == <<expenses, store, pc, pending, alert, imported>>
statVars == <<range, currentDate, viewMode>>
formVars == <<transactionType, selectedCategory, listCurrentDate>>

(***************************************************************************)
(* Bounds                                                                  *)
(***************************************************************************)
MaxRecs == 3
MaxLen == 2
MaxPending == 1
MaxMsTicks == 1

(***************************************************************************)
(* The local calendar of JavaScript Date                                   *)
(***************************************************************************)
\* the years the calendar tables cover; day 0 is 2022-01-01
Years == 2022..2026
EpochYear == CHOOSE y \in Years : \A z \in Years : y <= z
LastYear == CHOOSE y \in Years : \A z \in Years : z <= y

\* 23:59:59.999 as the millisecond of the day
MsEndOfDay == ((23 * 60 + 59) * 60 + 59) * 1000 + 999

IsLeap(y) == (y % 4 = 0 /\ y % 100 # 0) \/ y % 400 = 0

DaysInMonth(y, m) ==
  IF m = 1 THEN (IF IsLeap(y) THEN 29 ELSE 28)
  ELSE IF m \in {3, 5, 8, 10} THEN 30 ELSE 31

DaysInYear(y) == IF IsLeap(y) THEN 366 ELSE 365

RECURSIVE DaysBeforeYear(_)
DaysBeforeYear(y) ==
  IF y <= EpochYear THEN 0 ELSE DaysBeforeYear(y - 1) + DaysInYear(y - 1)

RECURSIVE DaysBeforeMonth(_, _)
DaysBeforeMonth(y, m) ==
  IF m <= 0 THEN 0 ELSE DaysBeforeMonth(y, m - 1) + DaysInMonth(y, m - 1)

\* a MakeDay that does not carry a month outside 0..11 into the year
MakeDayNoCarry(y, m, d) ==
  DaysBeforeYear(y) + DaysBeforeMonth(y, m % 12) + d - 1

\* MakeDay of ECMAScript: month and date may lie outside their usual range.
MakeDay(y, m, d) ==
  LET yy == y + (m \div 12)
      mm == m % 12
  IN  DaysBeforeYear(yy) + DaysBeforeMonth(yy, mm) + d - 1

DayNums == 0..(DaysBeforeYear(LastYear + 1) - 1)

YearTable ==
  [n \in DayNums |->
     CHOOSE y \in Years : DaysBeforeYear(y) <= n /\ n < DaysBeforeYear(y + 1)]

MonthTable ==
  [n \in DayNums |->
     LET y == YearTable[n]
         k == n - DaysBeforeYear(y)
     IN  CHOOSE m \in 0..11 :
           DaysBeforeMonth(y, m) <= k /\ k < DaysBeforeMonth(y, m + 1)]

\* Date.prototype.getFullYear / getMonth (0..11) / getDate (1..31) / getDay
getFullYear(t) == YearTable[t.day]
getMonth(t) == MonthTable[t.day]
getDate(t) ==
  t.day - DaysBeforeYear(YearTable[t.day])
        - DaysBeforeMonth(YearTable[t.day], MonthTable[t.day]) + 1
\* 2022-01-01 was a Saturday (6); Sunday is 0
getDay(t) == (t.day + 6) % 7

Instant(d, m) == [day |-> d, ms |-> m]

\* new Date(year, month, date, h, mi, s, ms) with the time of day given in ms
NewDate(y, m, d, msOfDay) == Instant(MakeDay(y, m, d), msOfDay)

setHours(t, msOfDay) == Instant(t.day, msOfDay)
setDate(t, d) == Instant(MakeDay(getFullYear(t), getMonth(t), d), t.ms)
setMonth(t, m) == Instant(MakeDay(getFullYear(t), m, getDate(t)), t.ms)
setFullYear(t, y) == Instant(MakeDay(y, getMonth(t), getDate(t)), t.ms)

\* a.getTime() <= b.getTime()
TimeLeq(a, b) == a.day < b.day \/ (a.day = b.day /\ a.ms <= b.ms)

(***************************************************************************)
(* Records (types.ts) and JSON values.  A JSON object is a TLA+ record     *)
(* that has exactly the fields the object carries.                         *)
(***************************************************************************)
Missing == "undefined"
NullItem == [null |-> TRUE]
IsNull(item) == "null" \in DOMAIN item

\* item.id, item.type: undefined when the object has no such field
IdOf(item) == IF "id" \in DOMAIN item THEN item.id ELSE Missing
TypeOf(item) == IF "type" \in DOMAIN item THEN item.type ELSE Missing

\* !item.id and !item.amount of the "simple validation"
IdFalsy(item) == "id" \notin DOMAIN item \/ item.id = ""
AmountFalsy(item) == "amount" \notin DOMAIN item \/ item.amount = 0

\* a migration that writes the default kind over the kind a record carries
NormalizeAlwaysExpense(item) ==
  [f \in (DOMAIN item) \cup {"type"} |-> IF f = "type" THEN "expense" ELSE item[f]]

\* { ...item, type: item.type || 'expense' }
Normalize(item) ==
  [f \in (DOMAIN item) \cup {"type"} |->
     IF f = "type"
       THEN (IF TypeOf(item) \in {Missing, ""} THEN "expense" ELSE item.type)
       ELSE item[f]]

\* no sorting at all
SortNone(s) == s

RECURSIVE InsertDesc(_, _)
\* position of x in a list sorted by date descending, after its ties
InsertDesc(x, s) ==
  IF s = <<>> THEN <<x>>
  ELSE IF TimeLeq(x.date, Head(s).date) THEN <<Head(s)>> \o InsertDesc(x, Tail(s))
  ELSE <<x>> \o s

RECURSIVE SortDesc(_)
\* arr.sort((a, b) => b.date - a.date): stable, descending by date
SortDesc(s) ==
  IF s = <<>> THEN <<>>
  ELSE InsertDesc(s[Len(s)], SortDesc(SubSeq(s, 1, Len(s) - 1)))

(***************************************************************************)
(* services/storageService.ts                                              *)
(***************************************************************************)
Absent == [kind |-> "absent"]
Garbage == [kind |-> "garbage"]
NotArray == [kind |-> "object"]
JsonArray(items) == [kind |-> "array", items |-> items]

\* a load that hands the migrated records back in reverse order
getExpensesReversed(raw) ==
  IF raw.kind = "absent" THEN <<>>
  ELSE IF raw.kind # "array" THEN <<>>
  ELSE IF \E k \in DOMAIN raw.items : IsNull(raw.items[k]) THEN <<>>
  ELSE [k \in DOMAIN raw.items |-> Normalize(raw.items[Len(raw.items) + 1 - k])]

\* a load that keeps the records migrated before an element it cannot migrate
getExpensesPartial(raw) ==
  IF raw.kind = "absent" THEN <<>>
  ELSE IF raw.kind # "array" THEN <<>>
  ELSE LET bad == {k \in DOMAIN raw.items : IsNull(raw.items[k])}
           n == IF bad = {} THEN Len(raw.items)
                ELSE (CHOOSE k \in bad : \A j \in bad : k <= j) - 1
       IN  [k \in 1..n |-> Normalize(raw.items[k])]

\* getExpenses: JSON.parse and the migration map inside one try / catch
getExpenses(raw) ==
  IF raw.kind = "absent" THEN <<>>
  ELSE IF raw.kind # "array" THEN <<>>
  ELSE IF \E k \in DOMAIN raw.items : IsNull(raw.items[k]) THEN <<>>
  ELSE [k \in DOMAIN raw.items |-> Normalize(raw.items[k])]

\* saveExpenses: localStorage.setItem(STORAGE_KEY, JSON.stringify(expenses))
saveExpenses(exp) == JsonArray(exp)

(***************************************************************************)
(* App.tsx: handleImport, the reader.onload callback                       *)
(***************************************************************************)
SeedIdsEmpty(exp) == {}

\* new Set(expenses.map(e => e.id))
SeedIds(exp) == {IdOf(exp[k]) : k \in DOMAIN exp}

\* variants of MergeStep: one that overwrites the record of a known id, one
\* that does not record the id of an accepted candidate
MergeStepUpsert(st, item) ==
  IF st.fault THEN st
  ELSE IF IsNull(item) THEN [st EXCEPT !.fault = TRUE]
  ELSE IF IdOf(item) \in st.ids
    THEN [st EXCEPT !.list = [k \in DOMAIN st.list |->
                                IF IdOf(st.list[k]) = IdOf(item)
                                  THEN Normalize(item) ELSE st.list[k]]]
  ELSE [ids |-> st.ids \cup {IdOf(item)},
        list |-> Append(st.list, Normalize(item)),
        added |-> st.added + 1,
        fault |-> FALSE]

MergeStepNoAdd(st, item) ==
  IF st.fault THEN st
  ELSE IF IsNull(item) THEN [st EXCEPT !.fault = TRUE]
  ELSE IF IdOf(item) \in st.ids THEN st
  ELSE [ids |-> st.ids,
        list |-> Append(st.list, Normalize(item)),
        added |-> st.added + 1,
        fault |-> FALSE]

\* one iteration of importedData.forEach: st = [ids, list, added, fault]
MergeStep(st, item) ==
  IF st.fault THEN st
  ELSE IF IsNull(item) THEN [st EXCEPT !.fault = TRUE]
  ELSE IF IdOf(item) \in st.ids THEN st
  ELSE [ids |-> st.ids \cup {IdOf(item)},
        list |-> Append(st.list, Normalize(item)),
        added |-> st.added + 1,
        fault |-> FALSE]

RECURSIVE MergeLoop(_, _)
\* importedData.forEach over the items in input order
MergeLoop(st, items) ==
  IF items = <<>> THEN st
  ELSE MergeLoop(MergeStep(st, Head(items)), Tail(items))

\* what one run of the callback does: the alert it shows, addedCount, and
\* whether setExpenses is called (set) and with which list
Outcome(m, a, called, e) == [msg |-> m, added |-> a, set |-> called, expenses |-> e]

ValidationIdOnly(items) == Len(items) > 0 /\ IdFalsy(items[1])

\* importedData.length > 0 && (!importedData[0].id || !importedData[0].amount)
ValidationFails(items) ==
  Len(items) > 0 /\ (IdFalsy(items[1]) \/ AmountFalsy(items[1]))

FaultOutcomePartial(exp, st) == Outcome("parse_error", st.added, TRUE, SortDesc(st.list))

\* the catch block: newExpenses is a local copy, setExpenses is not called
FaultOutcome(exp, st) == Outcome("parse_error", 0, FALSE, exp)

\* a callback that calls setExpenses with its merged copy also when nothing
\* was added
handleImportAlwaysSet(exp, text) ==
  LET st0 == [ids |-> SeedIds(exp), list |-> exp, added |-> 0, fault |-> FALSE]
  IN
  IF text.kind = "garbage" THEN FaultOutcome(exp, st0)
  ELSE IF text.kind # "array" THEN Outcome("format_not_array", 0, FALSE, exp)
  ELSE IF Len(text.items) > 0 /\ IsNull(text.items[1]) THEN FaultOutcome(exp, st0)
  ELSE IF ValidationFails(text.items) THEN Outcome("format_bad_record", 0, FALSE, exp)
  ELSE LET st == MergeLoop(st0, text.items)
       IN  IF st.fault THEN FaultOutcome(exp, st)
           ELSE IF st.added > 0
             THEN Outcome("success", st.added, TRUE, SortDesc(st.list))
           ELSE Outcome("no_new", 0, TRUE, SortDesc(st.list))

\* the body of reader.onload for the captured list exp and the file content text
handleImport(exp, text) ==
  LET st0 == [ids |-> SeedIds(exp), list |-> exp, added |-> 0, fault |-> FALSE]
  IN
  IF text.kind = "garbage" THEN FaultOutcome(exp, st0)
  ELSE IF text.kind # "array" THEN Outcome("format_not_array", 0, FALSE, exp)
  ELSE IF Len(text.items) > 0 /\ IsNull(text.items[1]) THEN FaultOutcome(exp, st0)
  ELSE IF ValidationFails(text.items) THEN Outcome("format_bad_record", 0, FALSE, exp)
  ELSE LET st == MergeLoop(st0, text.items)
       IN  IF st.fault THEN FaultOutcome(exp, st)
           ELSE IF st.added > 0
             THEN Outcome("success", st.added, TRUE, SortDesc(st.list))
           ELSE Outcome("no_new", 0, FALSE, exp)

(***************************************************************************)
(* Inputs: calendar days, file contents, stored blobs, form entries        *)
(***************************************************************************)
\* day number of the calendar date y-m-d (m = 1..12)
D(y, m, d) == MakeDay(y, m - 1, d)

\* 10:00:00.000 as the millisecond of the day
BaseMs == 10 * 3600000

\* elements of an imported JSON array
ItemA == [id |-> "a", amount |-> 5, type |-> "expense", category |-> "food",
          date |-> Instant(D(2025, 2, 10), BaseMs)]
ItemOld == [id |-> "b", amount |-> 3, category |-> "food",
            date |-> Instant(D(2025, 1, 31), BaseMs)]
ItemA2 == [id |-> "a", amount |-> 7, type |-> "income", category |-> "salary",
           date |-> Instant(D(2025, 1, 31), BaseMs)]
ItemNoId == [amount |-> 2, type |-> "transfer", category |-> "food",
             date |-> Instant(D(2025, 2, 10), BaseMs)]
ItemNoAmount == [id |-> "c", type |-> "income", category |-> "salary",
                 date |-> Instant(D(2025, 2, 10), BaseMs)]

ImportPool == {ItemA, ItemOld, ItemA2, ItemNoId, ItemNoAmount, NullItem}

SeqsUpTo(S, n) == UNION {[1..k -> S] : k \in 0..n}

\* contents of the chosen file
Texts == {Garbage, NotArray} \cup {JsonArray(q) : q \in SeqsUpTo(ImportPool, MaxLen)}

\* what localStorage may hold when the application starts
StoreChoices ==
  {Absent, Garbage, NotArray, JsonArray(<<ItemOld>>), JsonArray(<<ItemOld, ItemA>>),
   JsonArray(<<ItemOld, NullItem>>)}

\* the amount field of the form and parseFloat of it
AmountInputs == {"", "0", "-3", "4"}
parseFloat(txt) == CASE txt = "0" -> 0 [] txt = "-3" -> -3 [] txt = "4" -> 4

\* the selected date of the form (dateStr), as year, month 1..12, day
SelDates == {<<2025, 2, 10>>}

AppNowChoices == {Instant(D(2025, 1, 31), BaseMs)}

NoAlert == [msg |-> "none", added |-> 0]
NoText == [kind |-> "none"]

\* alert() is modal: the message of the last import is gone before any other
\* handler runs
Dismiss == alert' = NoAlert /\ imported' = NoText

(***************************************************************************)
(* constants.tsx: the categories                                           *)
(***************************************************************************)
\* constants.tsx: id and label of the expense and of the income categories;
\* the labels are written in pinyin (canyin, jiaotong, gouwu, juzhu, yule,
\* yiliao, xuexi, qita; gongzi, jiangjin, licai, qita)
EXPENSE_CATEGORIES ==
  << [id |-> "food", label |-> "canyin"],
     [id |-> "transport", label |-> "jiaotong"],
     [id |-> "shopping", label |-> "gouwu"],
     [id |-> "housing", label |-> "juzhu"],
     [id |-> "entertainment", label |-> "yule"],
     [id |-> "medical", label |-> "yiliao"],
     [id |-> "study", label |-> "xuexi"],
     [id |-> "other", label |-> "qita"] >>

INCOME_CATEGORIES ==
  << [id |-> "salary", label |-> "gongzi"],
     [id |-> "bonus", label |-> "jiangjin"],
     [id |-> "investment", label |-> "licai"],
     [id |-> "other_income", label |-> "qita"] >>

CATEGORIES == EXPENSE_CATEGORIES \o INCOME_CATEGORIES

\* a lookup that falls back to the first category
getCategoryConfigFirst(id) ==
  IF \E k \in DOMAIN CATEGORIES : CATEGORIES[k].id = id
    THEN CATEGORIES[CHOOSE k \in DOMAIN CATEGORIES :
                      /\ CATEGORIES[k].id = id
                      /\ \A j \in 1..(k - 1) : CATEGORIES[j].id # id]
    ELSE CATEGORIES[1]

\* CATEGORIES.find(c => c.id === id) || EXPENSE_CATEGORIES[7]
getCategoryConfig(id) ==
  IF \E k \in DOMAIN CATEGORIES : CATEGORIES[k].id = id
    THEN CATEGORIES[CHOOSE k \in DOMAIN CATEGORIES :
                      /\ CATEGORIES[k].id = id
                      /\ \A j \in 1..(k - 1) : CATEGORIES[j].id # id]
    ELSE EXPENSE_CATEGORIES[8]

(***************************************************************************)
(* App.tsx: state after construction and the handlers                      *)
(***************************************************************************)
Init ==
  /\ expenses = <<>>
  /\ store \in StoreChoices
  /\ pc = "mount"
  /\ pending = <<>>
  /\ alert = NoAlert
  /\ imported = NoText
  /\ now \in AppNowChoices
  /\ range = "month"
  /\ currentDate = now
  /\ viewMode = "overview"
  /\ transactionType = "expense"
  /\ selectedCategory = "food"
  /\ listCurrentDate = now

\* first commit: the load effect reads the store and queues the loaded list,
\* the save effect runs with the initial empty list
Mount ==
  /\ pc = "mount"
  /\ expenses' = SortDesc(getExpenses(store))
  /\ store' = saveExpenses(<<>>)
  /\ pc' = "loaded"
  /\ UNCHANGED <<formVars, pending, alert, imported, now, statVars>>

\* re-render with the loaded list: the save effect writes it
FlushSave ==
  /\ pc = "loaded"
  /\ store' = saveExpenses(expenses)
  /\ pc' = "ready"
  /\ UNCHANGED <<formVars, expenses, pending, alert, imported, now, statVars>>

\* the record built by handleAddExpense
NewExpense(amountText, sel, type, cat) ==
  [id |-> ToString(now.day) \o "." \o ToString(now.ms),
   amount |-> parseFloat(amountText),
   type |-> type,
   category |-> cat,
   date |-> setDate(setMonth(setFullYear(now, sel[1]), sel[2] - 1), sel[3])]

handleAddExpense(amountText, sel, type, cat) ==
  /\ pc = "ready"
  /\ IF amountText = "" \/ parseFloat(amountText) <= 0
       THEN UNCHANGED <<expenses, store>>
       ELSE /\ Len(expenses) < MaxRecs
            /\ expenses' = SortDesc(<<NewExpense(amountText, sel, type, cat)>> \o expenses)
            /\ store' = saveExpenses(expenses')
  /\ Dismiss
  /\ UNCHANGED <<formVars, pc, pending, now, statVars>>

\* a delete whose new list is not written
handleDeleteNoSave(id) ==
  /\ pc = "ready"
  /\ \E k \in DOMAIN expenses : IdOf(expenses[k]) = id
  /\ expenses' = SelectSeq(expenses, LAMBDA e : IdOf(e) # id)
  /\ Dismiss
  /\ UNCHANGED <<formVars, store, pc, pending, now, statVars>>

handleDelete(id) ==
  /\ pc = "ready"
  /\ \E k \in DOMAIN expenses : IdOf(expenses[k]) = id
  /\ expenses' = SelectSeq(expenses, LAMBDA e : IdOf(e) # id)
  /\ store' = saveExpenses(expenses')
  /\ Dismiss
  /\ UNCHANGED <<formVars, pc, pending, now, statVars>>

\* handleImport up to reader.readAsText: the callback closes over expenses
ChooseFile ==
  /\ pc = "ready"
  /\ Len(pending) < MaxPending
  /\ pending' = Append(pending, expenses)
  /\ Dismiss
  /\ UNCHANGED <<formVars, expenses, store, pc, now, statVars>>

RemoveAt(q, k) == SubSeq(q, 1, k - 1) \o SubSeq(q, k + 1, Len(q))

\* reader.onload of the k-th read in flight, the file holding text
ImportLoaded(k, text) ==
  /\ k \in DOMAIN pending
  /\ LET r == handleImport(pending[k], text)
     IN  /\ Len(r.expenses) <= MaxRecs
         /\ alert' = [msg |-> r.msg, added |-> r.added]
         /\ IF r.set
              THEN /\ expenses' = r.expenses
                   /\ store' = saveExpenses(expenses')
              ELSE UNCHANGED <<expenses, store>>
  /\ imported' = text
  /\ pending' = RemoveAt(pending, k)
  /\ UNCHANGED <<formVars, pc, now, statVars>>

\* the millisecond clock advances
TickMs ==
  /\ now.ms < BaseMs + MaxMsTicks
  /\ now' = Instant(now.day, now.ms + 1)
  /\ UNCHANGED <<formVars, appVars, statVars>>

\* !!(amount && parseFloat(amount) > 0)
isFormValid(amountText) == amountText # "" /\ parseFloat(amountText) > 0

\* a button that records whatever was entered, unless the field is empty
clickAddUnchecked(amountText, sel) ==
  /\ pc = "ready"
  /\ amountText # ""
  /\ Len(expenses) < MaxRecs
  /\ expenses' = SortDesc(<<NewExpense(amountText, sel, transactionType,
                                       selectedCategory)>> \o expenses)
  /\ store' = saveExpenses(expenses')
  /\ Dismiss
  /\ UNCHANGED <<formVars, pc, pending, now, statVars>>

\* the button of the add tab: if (isFormValid) handleAddExpense()
clickAdd(amountText, sel) ==
  IF isFormValid(amountText)
    THEN handleAddExpense(amountText, sel, transactionType, selectedCategory)
    ELSE /\ pc = "ready"
         /\ Dismiss
         /\ UNCHANGED <<formVars, expenses, store, pc, pending, now, statVars>>

\* a toggle that leaves the selected category as it is
handleTypeChangeKeepCategory(type) ==
  /\ pc = "ready"
  /\ transactionType' = type
  /\ Dismiss
  /\ UNCHANGED <<selectedCategory, listCurrentDate, expenses, store, pc, pending,
                 now, statVars>>

\* the kind toggle: the category is reset to the first one of the new kind
handleTypeChange(type) ==
  /\ pc = "ready"
  /\ transactionType' = type
  /\ selectedCategory' = IF type = "expense" THEN EXPENSE_CATEGORIES[1].id
                                             ELSE INCOME_CATEGORIES[1].id
  /\ Dismiss
  /\ UNCHANGED <<listCurrentDate, expenses, store, pc, pending, now, statVars>>

\* the categories the add tab offers
currentCategories ==
  IF transactionType = "expense" THEN EXPENSE_CATEGORIES ELSE INCOME_CATEGORIES

\* a category button of the add tab
setSelectedCategory(cat) ==
  /\ pc = "ready"
  /\ \E k \in DOMAIN currentCategories : currentCategories[k].id = cat
  /\ selectedCategory' = cat
  /\ Dismiss
  /\ UNCHANGED <<transactionType, listCurrentDate, expenses, store, pc, pending,
                 now, statVars>>

\* the months the list view may be moved through: November 2024 up to March
\* 2025
ListAnchorDays == {n \in DayNums : D(2024, 11, 1) <= n /\ n <= D(2025, 3, 31)}

\* the month arrows of the list view
navigateListMonth(direction) ==
  /\ pc = "ready"
  /\ setMonth(listCurrentDate, getMonth(listCurrentDate) + direction).day
       \in ListAnchorDays
  /\ listCurrentDate' = setMonth(listCurrentDate, getMonth(listCurrentDate) + direction)
  /\ Dismiss
  /\ UNCHANGED <<transactionType, selectedCategory, expenses, store, pc, pending,
                 now, statVars>>

Add == \E a \in AmountInputs, sel \in SelDates : clickAdd(a, sel)
TypeChange == \E type \in {"expense", "income"} : handleTypeChange(type)
Delete == \E k \in DOMAIN expenses : handleDelete(IdOf(expenses[k]))
Import == \E k \in DOMAIN pending, text \in Texts : ImportLoaded(k, text)

Next ==
  \/ Mount
  \/ FlushSave
  \/ Add
  \/ TypeChange
  \/ Delete
  \/ ChooseFile
  \/ Import
  \/ TickMs

Spec == Init /\ [][Next]_vars

(***************************************************************************)
(* App.tsx: the entry form and the list view on their own                  *)
(***************************************************************************)
\* today when the form is used: 2025-01-31 or 2025-02-10
FormNowChoices == {Instant(D(2025, 1, 31), BaseMs), Instant(D(2025, 2, 10), BaseMs)}

\* the category buttons pressed
FormCategories == {"food", "transport", "other", "salary", "other_income"}

InitForm ==
  /\ expenses = <<>>
  /\ store = saveExpenses(expenses)
  /\ pc = "ready"
  /\ pending = <<>>
  /\ alert = NoAlert
  /\ imported = NoText
  /\ now \in FormNowChoices
  /\ range = "month"
  /\ currentDate = now
  /\ viewMode = "overview"
  /\ transactionType = "expense"
  /\ selectedCategory = "food"
  /\ listCurrentDate = now

SelectCategory == \E cat \in FormCategories : setSelectedCategory(cat)
NavigateListMonth == \E direction \in {-1, 1} : navigateListMonth(direction)

NextForm ==
  \/ Add
  \/ Delete
  \/ TypeChange
  \/ SelectCategory
  \/ NavigateListMonth

SpecForm == InitForm /\ [][NextForm]_vars

(***************************************************************************)
(* Statistics: the range, the totals and the trend series                  *)
(***************************************************************************)
WeekdayIndexRaw(target) == getDay(target)

\* target.getDay() || 7
WeekdayIndex(target) == IF getDay(target) = 0 THEN 7 ELSE getDay(target)

\* the first useMemo: start and end of the period of granularity rng that
\* holds the reference date cur
ResolveRange(cur, rng) ==
  LET target == setHours(cur, 0)
      weekStart == setHours(setDate(target, getDate(target) - WeekdayIndex(target) + 1), 0)
  IN  CASE rng = "day" ->
             [start |-> target, end |-> setHours(target, MsEndOfDay)]
        [] rng = "week" ->
             [start |-> weekStart,
              end |-> setHours(setDate(weekStart, getDate(weekStart) + 6), MsEndOfDay)]
        [] rng = "month" ->
             [start |-> NewDate(getFullYear(target), getMonth(target), 1, 0),
              end |-> NewDate(getFullYear(target), getMonth(target) + 1, 0, MsEndOfDay)]
        [] rng = "year" ->
             [start |-> NewDate(getFullYear(target), 0, 1, 0),
              end |-> NewDate(getFullYear(target), 11, 31, MsEndOfDay)]

\* a filter that leaves out the last millisecond of the range
DateFilteredExclusive(exp, r) ==
  SelectSeq(exp, LAMBDA e : TimeLeq(r.start, e.date) /\ TimeLeq(e.date, r.end)
                            /\ e.date # r.end)

\* expenses.filter(e => e.date >= start.getTime() && e.date <= end.getTime())
DateFiltered(exp, r) ==
  SelectSeq(exp, LAMBDA e : TimeLeq(r.start, e.date) /\ TimeLeq(e.date, r.end))

RECURSIVE TotalsLoop(_, _)
\* the totals of the second useMemo: only income and expense records count
TotalsLoop(acc, list) ==
  IF list = <<>> THEN acc
  ELSE LET e == Head(list)
           next == IF TypeOf(e) = "income"
                     THEN [acc EXCEPT !.inc = @ + e.amount]
                   ELSE IF TypeOf(e) = "expense"
                     THEN [acc EXCEPT !.exp = @ + e.amount]
                   ELSE acc
       IN  TotalsLoop(next, Tail(list))

Totals(list) ==
  LET acc == TotalsLoop([inc |-> 0, exp |-> 0], list)
  IN  [totalIncome |-> acc.inc, totalExpense |-> acc.exp, balance |-> acc.inc - acc.exp]

Bucket(i) == [income |-> 0, expense |-> 0, sortIndex |-> i]

\* data[idx].income += e.amount, or .expense for every other record; idx is
\* the JavaScript index, and reading a bucket that does not exist is a fault
AddAt(tr, idx, e) ==
  IF tr.fault \/ (idx + 1) \notin DOMAIN tr.data THEN [tr EXCEPT !.fault = TRUE]
  ELSE IF TypeOf(e) = "income"
    THEN [tr EXCEPT !.data[idx + 1].income = @ + e.amount]
    ELSE [tr EXCEPT !.data[idx + 1].expense = @ + e.amount]

\* a dayIndex that counts from Sunday
WeekBucketSundayFirst(e) == getDay(e.date)

\* dayIndex of the week series: Monday is 0, Sunday 6
WeekBucket(e) == IF getDay(e.date) - 1 = -1 THEN 6 ELSE getDay(e.date) - 1

LimitDayUncapped(start, today) ==
  getDate(NewDate(getFullYear(start), getMonth(start) + 1, 0, 0))

\* the number of buckets of the month series: the days of the month, or the
\* day of today in the current month
LimitDay(start, today) ==
  LET year == getFullYear(start)
      month == getMonth(start)
      daysInMonth == getDate(NewDate(year, month + 1, 0, 0))
  IN  IF year = getFullYear(today) /\ month = getMonth(today)
        THEN getDate(today)
        ELSE daysInMonth

RECURSIVE TrendLoop(_, _, _, _)
\* dateFilteredExpenses.forEach of the series of granularity rng
TrendLoop(tr, list, rng, limitDay) ==
  IF list = <<>> THEN tr
  ELSE LET e == Head(list)
           next == CASE rng = "week" -> AddAt(tr, WeekBucket(e), e)
                     [] rng = "month" ->
                          IF getDate(e.date) <= limitDay
                            THEN AddAt(tr, getDate(e.date) - 1, e)
                            ELSE tr
                     [] rng = "year" -> AddAt(tr, getMonth(e.date), e)
       IN  TrendLoop(next, Tail(list), rng, limitDay)

\* the third useMemo: the trend series over the filtered list; today is the
\* clock read (new Date()) when it is computed
TrendData(list, rng, start, today) ==
  LET limitDay == LimitDay(start, today)
      seed == CASE rng = "day" -> <<>>
                [] rng = "week" -> [i \in 1..7 |-> Bucket(i - 1)]
                [] rng = "month" -> [i \in 1..limitDay |-> Bucket(i)]
                [] rng = "year" -> [i \in 1..12 |-> Bucket(i)]
  IN  IF rng = "day"
        THEN [data |-> <<[income |-> Totals(list).totalIncome,
                          expense |-> Totals(list).totalExpense,
                          sortIndex |-> 0]>>,
              fault |-> FALSE]
        ELSE TrendLoop([data |-> seed, fault |-> FALSE], list, rng, limitDay)

\* what the component renders from its state
resolved == ResolveRange(currentDate, range)
dateFilteredExpenses == DateFiltered(expenses, resolved)
totals == Totals(dateFilteredExpenses)
trendData == TrendData(dateFilteredExpenses, range, resolved.start, now)

(***************************************************************************)
(* Statistics: the category breakdown (pieChartData) and its percentages   *)
(***************************************************************************)
\* categoryMap.set(key, (categoryMap.get(key) || 0) + amount): a Map keeps
\* its keys in the order of their first insertion
MapAdd(map, key, amount) ==
  IF \E k \in DOMAIN map : map[k].key = key
    THEN [k \in DOMAIN map |->
            IF map[k].key = key THEN [map[k] EXCEPT !.value = @ + amount] ELSE map[k]]
    ELSE Append(map, [key |-> key, value |-> amount])

RECURSIVE CategoryLoop(_, _, _)
\* the category part of dateFilteredExpenses.forEach
CategoryLoop(map, list, vm) ==
  IF list = <<>> THEN map
  ELSE LET e == Head(list)
           next == IF (vm = "expense" /\ TypeOf(e) = "expense")
                      \/ (vm = "income" /\ TypeOf(e) = "income")
                     THEN MapAdd(map, e.category, e.amount)
                     ELSE map
       IN  CategoryLoop(next, Tail(list), vm)

RECURSIVE InsertByValue(_, _)
InsertByValue(x, s) ==
  IF s = <<>> THEN <<x>>
  ELSE IF x.value <= Head(s).value THEN <<Head(s)>> \o InsertByValue(x, Tail(s))
  ELSE <<x>> \o s

RECURSIVE SortByValue(_)
\* sort((a, b) => b.value - a.value): stable, descending by value
SortByValue(s) ==
  IF s = <<>> THEN <<>>
  ELSE InsertByValue(s[Len(s)], SortByValue(SubSeq(s, 1, Len(s) - 1)))

\* the entries of the Map as chart entries
PieEntries(map) ==
  [k \in DOMAIN map |->
     [name |-> getCategoryConfig(map[k].key).label,
      value |-> map[k].value,
      originalId |-> map[k].key]]

PieChartDataUnsorted(list, vm) ==
  IF vm # "overview" THEN PieEntries(CategoryLoop(<<>>, list, vm)) ELSE <<>>

\* pieChartData of the second useMemo
PieChartData(list, vm) ==
  IF vm # "overview"
    THEN SortByValue(PieEntries(CategoryLoop(<<>>, list, vm)))
    ELSE <<>>

pieChartData == PieChartData(dateFilteredExpenses, viewMode)

currentTotalExpenseOnly == totals.totalExpense

\* viewMode === 'income' ? totalIncome : totalExpense
currentTotal == IF viewMode = "income" THEN totals.totalIncome ELSE totals.totalExpense

\* x.toFixed(1) of the quotient num / den (den > 0), as a number of tenths
ToFixed1(num, den) == (2 * 10 * num + den) \div (2 * den)

\* currentTotal > 0 ? ((item.value / currentTotal) * 100).toFixed(1) : '0.0',
\* in tenths of a percent
Percentage(value, total) ==
  IF total > 0 THEN ToFixed1(value * 100, total) ELSE 0

\* the percentages of the list under the chart, entry by entry
percentages ==
  [k \in DOMAIN pieChartData |-> Percentage(pieChartData[k].value, currentTotal)]

(***************************************************************************)
(* Statistics: inputs, state after construction and handlers               *)
(***************************************************************************)
\* the months (year, month 0..11) the reference date may be moved through
AnchorMonths ==
  {<<2024, 1>>, <<2024, 10>>, <<2024, 11>>, <<2025, 0>>, <<2025, 1>>, <<2025, 2>>}
AnchorDays == {n \in DayNums : <<YearTable[n], MonthTable[n]>> \in AnchorMonths}

\* the days the month and year arrows may move it to: February 2024 up to
\* March 2025
MonthAnchorDays == {n \in DayNums : D(2024, 2, 1) <= n /\ n <= D(2025, 3, 31)}

\* today, for the whole time the screen is shown: Monday 2025-02-03 or
\* Sunday 2025-02-09, the latter also in its last millisecond
StatNowChoices ==
  {Instant(D(2025, 2, 3), BaseMs), Instant(D(2025, 2, 9), BaseMs),
   Instant(D(2025, 2, 9), MsEndOfDay)}

TxLeap == [id |-> "s1", amount |-> 50, type |-> "income", category |-> "salary",
           date |-> Instant(D(2024, 2, 29), BaseMs)]
TxFood == [id |-> "s2", amount |-> 100, type |-> "expense", category |-> "food",
           date |-> Instant(D(2025, 2, 10), BaseMs)]
TxBonus == [id |-> "s3", amount |-> 20, type |-> "income", category |-> "bonus",
            date |-> Instant(D(2025, 2, 2), 0)]
TxYearEnd == [id |-> "s4", amount |-> 7, type |-> "expense", category |-> "transport",
              date |-> Instant(D(2024, 12, 31), MsEndOfDay)]
TxNewYear == [id |-> "s5", amount |-> 90, type |-> "income", category |-> "salary",
              date |-> Instant(D(2025, 1, 1), 0)]

\* the lists the component is first rendered with
StatExpenseChoices ==
  {<<>>, SortDesc(<<TxLeap, TxFood, TxBonus, TxYearEnd, TxNewYear>>)}

\* a record of amount zero and of a category that is not registered, alone in
\* its month
ItemZero == [id |-> "z", amount |-> 0, type |-> "income", category |-> "gift",
             date |-> Instant(D(2024, 11, 15), BaseMs)]

\* the files imported from the statistics screen
StatTexts == {JsonArray(<<ItemOld, ItemNoId>>), JsonArray(<<ItemOld, ItemZero>>)}

InitStats ==
  /\ expenses \in StatExpenseChoices
  /\ store = saveExpenses(expenses)
  /\ pc = "ready"
  /\ pending = <<>>
  /\ alert = NoAlert
  /\ imported = NoText
  /\ now \in StatNowChoices
  /\ range = "month"
  /\ currentDate = now
  /\ viewMode = "overview"
  /\ transactionType = "expense"
  /\ selectedCategory = "food"
  /\ listCurrentDate = now

\* the date navigateDate moves the reference date to
NavigatedDate(cur, rng, direction) ==
  CASE rng = "day" -> setDate(cur, getDate(cur) + direction)
    [] rng = "week" -> setDate(cur, getDate(cur) + direction * 7)
    [] rng = "month" -> setMonth(cur, getMonth(cur) + direction)
    [] rng = "year" -> setFullYear(cur, getFullYear(cur) + direction)

\* the arrows
navigateDate(direction) ==
  /\ NavigatedDate(currentDate, range, direction).day \in
       (IF range \in {"month", "year"} THEN MonthAnchorDays ELSE AnchorDays)
  /\ currentDate' = NavigatedDate(currentDate, range, direction)
  /\ Dismiss
  /\ UNCHANGED <<formVars, expenses, store, pc, pending, now, range, viewMode>>

\* the range selector: setRange(r); setCurrentDate(new Date())
selectRange(r) ==
  /\ range' = r
  /\ currentDate' = now
  /\ Dismiss
  /\ UNCHANGED <<formVars, expenses, store, pc, pending, now, viewMode>>

\* the view tabs
selectViewMode(v) ==
  /\ viewMode' = v
  /\ Dismiss
  /\ UNCHANGED <<formVars, expenses, store, pc, pending, now, range, currentDate>>

\* the import button of the screen: the file is read and merged before any
\* other event; the new list is rendered
StatImport(text) ==
  /\ LET r == handleImport(expenses, text)
     IN  /\ alert' = [msg |-> r.msg, added |-> r.added]
         /\ IF r.set
              THEN /\ expenses' = r.expenses
                   /\ store' = saveExpenses(expenses')
                               ELSE UNCHANGED <<expenses, store>>
  /\ imported' = text
  /\ UNCHANGED <<formVars, pc, pending, now, range, currentDate, viewMode>>

Navigate == \E direction \in {-1, 1} : navigateDate(direction)
SelectRange == \E r \in {"day", "week", "month", "year"} : selectRange(r)
SelectViewMode == \E v \in {"overview", "expense", "income"} : selectViewMode(v)
ImportFromStats == \E text \in StatTexts : StatImport(text)

NextStats ==
  \/ Navigate
  \/ SelectRange
  \/ SelectViewMode
  \/ ImportFromStats

SpecStats == InitStats /\ [][NextStats]_vars

(***************************************************************************)
(* Properties of the import merge                                          *)
(***************************************************************************)
Range(q) == {q[k] : k \in DOMAIN q}
Count(x, q) == Cardinality({k \in DOMAIN q : q[k] = x})
IdsIn(q) == {IdOf(q[k]) : k \in DOMAIN q}
Merged(msg) == msg \in {"success", "no_new"}
Rejected(msg) == msg \in {"format_not_array", "format_bad_record"}

\* the candidates of items the merge into A inserts: first occurrences of ids
\* that A does not hold
Accepted(A, items) ==
  {i \in DOMAIN items :
     /\ IdOf(items[i]) \notin IdsIn(A)
     /\ \A j \in 1..(i - 1) : IdOf(items[j]) # IdOf(items[i])}

\* this step is reader.onload of the k-th read in flight; imported' is the
\* content of its file
ImportStep(k) ==
  /\ Len(pending') < Len(pending)
  /\ ImportLoaded(k, imported')

\* a record that does not carry the field
Lacks(item, f) == ~IsNull(item) /\ f \notin DOMAIN item

\* C1: merge idempotence.  For every reachable transaction list A and every
\* file content B whose import is not aborted, importing B into the result of
\* importing B into A adds zero records (the callback reports "no new
\* records", addedCount = 0) and leaves the list as it is.
MergeIdempotent ==
  \A text \in Texts :
    LET r1 == handleImport(expenses, text)
    IN  Merged(r1.msg) =>
          LET r2 == handleImport(r1.expenses, text)
          IN  /\ r2.msg = "no_new"
              /\ r2.added = 0
              /\ ~r2.set
              /\ r2.expenses = r1.expenses

\* a second import of two records the list already took from an import
MergeIdempotentWitness ==
  /\ alert.msg = "no_new"
  /\ imported = JsonArray(<<ItemOld, ItemNoId>>)
  /\ {Normalize(ItemOld), Normalize(ItemNoId)} \subseteq Range(expenses)

\* C2: merge additivity.  Whenever an import that is not aborted completes,
\* the merged list has exactly |A| + addedCount records, A being the list the
\* merge was given, and every record of A is in it, unchanged, as often as in
\* A; when records were added the merged list becomes the transaction list.
MergeAdditive ==
  [][\A k \in DOMAIN pending :
       ImportStep(k) =>
         LET A == pending[k]
             r == handleImport(A, imported')
         IN  Merged(r.msg) =>
               /\ Len(r.expenses) = Len(A) + alert'.added
               /\ \A x \in Range(A) : Count(x, r.expenses) >= Count(x, A)
               /\ (alert'.added > 0 => expenses' = r.expenses)]_vars

\* an import added two records to a list that held one
MergeAdditiveWitness ==
  /\ alert.msg = "success"
  /\ alert.added = 2
  /\ Len(expenses) = 3

\* C3: the merge takes the candidates in input order against the ids of the
\* existing list and of the candidates accepted so far: the inserted
\* candidates are exactly the first occurrences of the ids the existing list
\* does not hold, each inserted once (normalised), and addedCount is their
\* number.
MergeFirstOccurrence ==
  [][\A k \in DOMAIN pending :
       (ImportStep(k) /\ Merged(alert'.msg)) =>
         LET A == pending[k]
             text == imported'
             acc == Accepted(A, text.items)
             new == {Normalize(text.items[i]) : i \in acc}
         IN  /\ alert'.added = Cardinality(acc)
             /\ acc = {} => expenses' = expenses
             /\ acc # {} =>
                  /\ \A x \in Range(A) \cup new :
                       Count(x, expenses') =
                         Count(x, A)
                         + Cardinality({i \in acc : Normalize(text.items[i]) = x})
                  /\ Range(expenses') = Range(A) \cup new]_vars

\* the file held the id "a" twice: only its first occurrence was inserted
MergeFirstOccurrenceWitness ==
  /\ alert.msg = "success"
  /\ alert.added = 1
  /\ imported = JsonArray(<<ItemA2, ItemA>>)
  /\ Normalize(ItemA2) \in Range(expenses)
  /\ ItemA \notin Range(expenses)

\* C4 as claimed: when the parsed content is not an array, or an element of
\* it lacks the id or the amount field, the import is rejected with a format
\* error, nothing is merged and the list is untouched.
RejectsAnyBadElement ==
  [][\A k \in DOMAIN pending :
       LET text == imported' IN
       (/\ ImportStep(k)
        /\ \/ text.kind = "object"
           \/ /\ text.kind = "array"
              /\ \E i \in DOMAIN text.items :
                   Lacks(text.items[i], "id") \/ Lacks(text.items[i], "amount"))
       => (Rejected(alert'.msg) /\ alert'.added = 0 /\ expenses' = expenses)]_vars

\* C4 amended: when the parsed content is not an array, or its first element
\* is a record that lacks the id or the amount field, the import is rejected
\* with a format error, nothing is merged, and the list and the store are
\* untouched.
RejectsBadFirstElement ==
  [][\A k \in DOMAIN pending :
       LET text == imported' IN
       (/\ ImportStep(k)
        /\ \/ text.kind = "object"
           \/ /\ text.kind = "array"
              /\ Len(text.items) > 0
              /\ Lacks(text.items[1], "id") \/ Lacks(text.items[1], "amount"))
       => /\ Rejected(alert'.msg)
          /\ alert'.added = 0
          /\ expenses' = expenses
          /\ store' = store]_vars

\* a file whose first record has no amount was rejected; its second, valid
\* record was not merged
RejectsBadFirstElementWitness ==
  /\ alert.msg = "format_bad_record"
  /\ imported = JsonArray(<<ItemNoAmount, ItemA>>)
  /\ ItemA \notin Range(expenses)
  /\ expenses # <<>>

\* C5: an import is all or nothing.  An import that aborts (content that is
\* not JSON, a format rejection, a fault on a null element) leaves the list
\* and the store as they were, and an import that changes the list has
\* merged every candidate: each candidate's id is in the list afterwards.
ImportAllOrNothing ==
  [][\A k \in DOMAIN pending :
       LET text == imported' IN
       ImportStep(k) =>
         /\ ~Merged(alert'.msg) => (expenses' = expenses /\ store' = store)
         /\ expenses' # expenses =>
              /\ alert'.msg = "success"
              /\ \A i \in DOMAIN text.items : IdOf(text.items[i]) \in IdsIn(expenses')
              /\ store' = saveExpenses(expenses')]_vars

\* the callback faulted on a null element after it had accepted a candidate:
\* that candidate is not in the list
ImportAllOrNothingWitness ==
  /\ alert.msg = "parse_error"
  /\ imported = JsonArray(<<ItemA, NullItem>>)
  /\ "a" \notin IdsIn(expenses)
  /\ expenses # <<>>

(***************************************************************************)
(* Properties of the statistics                                            *)
(***************************************************************************)
RECURSIVE SumAmounts(_)
SumAmounts(list) ==
  IF list = <<>> THEN 0 ELSE Head(list).amount + SumAmounts(Tail(list))

RECURSIVE SumIncome(_)
SumIncome(data) ==
  IF data = <<>> THEN 0 ELSE Head(data).income + SumIncome(Tail(data))

RECURSIVE SumExpense(_)
SumExpense(data) ==
  IF data = <<>> THEN 0 ELSE Head(data).expense + SumExpense(Tail(data))

\* the resolved month is the calendar month of today
CurrentMonthShown ==
  /\ range = "month"
  /\ YearTable[currentDate.day] = YearTable[now.day]
  /\ MonthTable[currentDate.day] = MonthTable[now.day]

\* C6: for every transaction list, range and view mode, balance is
\* totalIncome - totalExpense, and totalIncome + totalExpense is the sum of
\* the amounts of all transactions whose timestamp lies in the range, records
\* that came in by import included.
TotalsInvariant ==
  /\ totals.balance = totals.totalIncome - totals.totalExpense
  /\ totals.totalIncome + totals.totalExpense = SumAmounts(dateFilteredExpenses)

\* C7: for the granularities week and year, the incomes of all trend buckets
\* sum to totalIncome and their expenses sum to totalExpense.
TrendConservation ==
  range \in {"week", "year"} =>
    /\ SumIncome(trendData.data) = totals.totalIncome
    /\ SumExpense(trendData.data) = totals.totalExpense

\* C8: with granularity month the trend series has exactly as many buckets as
\* the day of the month of today (the clock read when the series is computed)
\* when the resolved month is the current calendar month, and as many as the
\* resolved month has days (28, 29, 30 or 31) for every other month.
MonthCap ==
  range = "month" =>
    /\ ~trendData.fault
    /\ Len(trendData.data) =
         IF CurrentMonthShown
           THEN getDate(now)
           ELSE DaysInMonth(YearTable[currentDate.day], MonthTable[currentDate.day])
    /\ \A i \in DOMAIN trendData.data : trendData.data[i].sortIndex = i

\* the current month, February 2025, is shown with fewer buckets than it has
\* days
MonthCapWitness ==
  /\ CurrentMonthShown
  /\ Len(trendData.data) = 9
  /\ Len(dateFilteredExpenses) > 0

\* C9: with granularity month on the current calendar month, a transaction
\* dated on a day after today is counted in totalIncome / totalExpense and
\* adds to no bucket, every other filtered transaction adds its amount to
\* exactly the bucket of its day of the month, and no bucket outside 1..N is
\* written.
FutureDaysExcluded ==
  CurrentMonthShown =>
    LET N == getDate(now)
        list == dateFilteredExpenses
        sumTotals(q) == Totals(q).totalIncome + Totals(q).totalExpense
    IN  /\ ~trendData.fault
        /\ DOMAIN trendData.data = 1..N
        /\ \A i \in 1..N :
             trendData.data[i].income + trendData.data[i].expense =
               SumAmounts(SelectSeq(list, LAMBDA e : getDate(e.date) = i))
        /\ \A k \in DOMAIN list :
             getDate(list[k].date) > N =>
               sumTotals(list) - sumTotals(RemoveAt(list, k)) = list[k].amount

\* C10: for every reference date, the resolved week starts at 00:00:00.000 of
\* the Monday on or before it and ends at 23:59:59.999 six days later; for a
\* Sunday the start is the Monday six days earlier and the end that Sunday.
\* Stated of the week of the reference date whatever granularity is shown.
WeekStartsMonday ==
  LET r == ResolveRange(currentDate, "week")
      t == currentDate.day
  IN  /\ r.start.ms = 0
      /\ (r.start.day + 6) % 7 = 1
      /\ r.start.day <= t
      /\ t - r.start.day <= 6
      /\ r.end = Instant(r.start.day + 6, MsEndOfDay)
      /\ (t + 6) % 7 = 0 => (r.start.day = t - 6 /\ r.end.day = t)
      /\ range = "week" => resolved = r

\* the week of a Sunday is shown and begins in the year before
WeekStartsMondayWitness ==
  /\ range = "week"
  /\ getDay(currentDate) = 0
  /\ getFullYear(resolved.start) < getFullYear(resolved.end)
  /\ resolved.end.day = currentDate.day

(***************************************************************************)
(* Properties of the resolved range and of the date filter                 *)
(***************************************************************************)
Granularities == {"day", "week", "month", "year"}

\* the reference date at 00:00:00.000 local time
AnchorMidnight == Instant(currentDate.day, 0)

\* C11: range correctness.  For every reference date and every granularity
\* (day, week, month, year), start <= anchor_midnight <= end, where
\* anchor_midnight is the reference date at 00:00:00.000 local time; the
\* range shown is the one of the selected granularity.
RangeCorrect ==
  \A g \in Granularities :
    LET r == ResolveRange(currentDate, g)
    IN  /\ TimeLeq(r.start, AnchorMidnight)
        /\ TimeLeq(AnchorMidnight, r.end)
        /\ range = g => resolved = r

\* the week of a reference date that is the last millisecond of a Sunday:
\* the range ends at the reference date itself and began six days earlier
RangeCorrectWitness ==
  /\ range = "week"
  /\ currentDate.ms = MsEndOfDay
  /\ resolved.end = currentDate
  /\ resolved.start.day = currentDate.day - 6

\* the instant one millisecond after t
NextMs(t) ==
  IF t.ms = MsEndOfDay THEN Instant(t.day + 1, 0) ELSE Instant(t.day, t.ms + 1)

\* day n lies in the calendar month of the reference date
InAnchorMonth(n) ==
  /\ n \in DayNums
  /\ YearTable[n] = YearTable[currentDate.day]
  /\ MonthTable[n] = MonthTable[currentDate.day]

\* C12: for every reference date, the resolved month starts at 00:00:00.000
\* of day 1 of its month and ends at 23:59:59.999 of that month's last day
\* (day 29 in February of a leap year), and the filter keeps exactly the
\* transactions with start <= timestamp <= end: one at 23:59:59.999 of the
\* last day is kept, one a millisecond later is not.
MonthRangeInclusive ==
  LET r == ResolveRange(currentDate, "month")
      kept(e) == InAnchorMonth(e.date.day) /\ e.date.ms \in 0..MsEndOfDay
  IN  /\ r.start.ms = 0
      /\ InAnchorMonth(r.start.day) /\ ~InAnchorMonth(r.start.day - 1)
      /\ getDate(r.start) = 1
      /\ r.end.ms = MsEndOfDay
      /\ InAnchorMonth(r.end.day) /\ ~InAnchorMonth(r.end.day + 1)
      /\ getDate(r.end) =
           DaysInMonth(YearTable[currentDate.day], MonthTable[currentDate.day])
      /\ (IsLeap(getFullYear(currentDate)) /\ getMonth(currentDate) = 1)
           => getDate(r.end) = 29
      /\ range = "month" =>
           /\ resolved = r
           /\ dateFilteredExpenses = SelectSeq(expenses, kept)
           /\ \A k \in DOMAIN expenses :
                /\ expenses[k].date = r.end
                     => expenses[k] \in Range(dateFilteredExpenses)
                /\ expenses[k].date = NextMs(r.end)
                     => expenses[k] \notin Range(dateFilteredExpenses)

\* December 2024 is shown: the transaction of 2024-12-31 23:59:59.999 is in
\* it, the one of 2025-01-01 00:00:00.000 is not
MonthRangeInclusiveWitness ==
  /\ range = "month"
  /\ getMonth(currentDate) = 11
  /\ TxYearEnd \in Range(dateFilteredExpenses)
  /\ TxNewYear \in Range(expenses)
  /\ TxNewYear \notin Range(dateFilteredExpenses)

(***************************************************************************)
(* Properties of the storage service and of the schema migration           *)
(***************************************************************************)
\* what the migration is to make of a record: the kind expense when it
\* carries no kind, the record itself otherwise
Migrated(rec) ==
  IF "type" \in DOMAIN rec THEN rec
  ELSE [f \in (DOMAIN rec) \cup {"type"} |-> IF f = "type" THEN "expense" ELSE rec[f]]

\* the stored value is an array of records
Loadable(raw) ==
  /\ raw.kind = "array"
  /\ \A k \in DOMAIN raw.items : ~IsNull(raw.items[k])

\* this step is the load at startup
LoadStep == pc = "mount" /\ pc' = "loaded"

\* C13: schema migration.  The list the load at startup yields holds, for
\* every stored record, that record with kind expense when it carried no
\* kind and that record unchanged (kind and every other field) when it
\* carried one; the same holds of every candidate an import inserts.
MigrationOnLoadAndImport ==
  [][/\ (LoadStep /\ Loadable(store)) =>
          /\ Len(expenses') = Len(store.items)
          /\ \A k \in DOMAIN store.items :
               Count(Migrated(store.items[k]), expenses') =
                 Cardinality({j \in DOMAIN store.items :
                                Migrated(store.items[j]) = Migrated(store.items[k])})
     /\ \A k \in DOMAIN pending :
          (ImportStep(k) /\ alert'.msg = "success") =>
            LET items == imported'.items
                acc == Accepted(pending[k], items)
            IN  /\ \A i \in acc : Migrated(items[i]) \in Range(expenses')
                /\ Range(expenses') =
                     Range(pending[k]) \cup {Migrated(items[i]) : i \in acc}]_vars

\* a stored record without kind is in the list as an expense, and an import
\* has inserted a record of kind expense and one of kind transfer as they were
MigrationOnLoadAndImportWitness ==
  /\ alert.msg = "success"
  /\ imported = JsonArray(<<ItemA, ItemNoId>>)
  /\ "type" \notin DOMAIN ItemOld
  /\ \E k \in DOMAIN expenses :
       /\ expenses[k] = Migrated(ItemOld)
       /\ expenses[k].type = "expense"
       /\ expenses[k].amount = ItemOld.amount
  /\ {ItemA, ItemNoId} \subseteq Range(expenses)

\* the raw values a load may find: what the store holds now, what it may
\* hold at startup, and every file content
RawValues == {store} \cup StoreChoices \cup Texts

\* C14: migration stability.  For every raw value, loading what the load
\* returned (written back by saveExpenses) returns the same list as loading
\* once.
MigrationStable ==
  \A raw \in RawValues :
    LET once == getExpenses(raw)
    IN  getExpenses(saveExpenses(once)) = once

\* the store holds the written-back result of a load that gave a record its
\* kind; loading it again gives the list in memory
MigrationStableWitness ==
  /\ pc = "ready"
  /\ Migrated(ItemOld) \in Range(expenses)
  /\ ItemOld \notin Range(expenses)
  /\ store = saveExpenses(expenses)
  /\ getExpenses(store) = expenses

\* C15: the load degrades instead of failing.  When the stored value is
\* absent, is not JSON, is JSON but not an array, or is an array with an
\* element that cannot be migrated (null), the load at startup yields the
\* empty list and the application goes on to render; a load never yields a
\* part of the stored records: it yields all of them or none.
LoadDegrades ==
  [][LoadStep =>
       /\ ~Loadable(store) => expenses' = <<>>
       /\ Loadable(store) => Len(expenses') = Len(store.items)
       /\ pc' = "loaded"
       /\ \A raw \in RawValues :
            /\ raw.kind \in {"absent", "garbage", "object"} => getExpenses(raw) = <<>>
            /\ Len(getExpenses(raw)) = IF Loadable(raw) THEN Len(raw.items) ELSE 0]_vars

\* the load has returned the empty list: every value the store may hold at
\* startup that loads as empty is absent or malformed, among them an array
\* with a migratable record before a null
LoadDegradesWitness ==
  /\ pc = "loaded"
  /\ expenses = <<>>
  /\ \A raw \in StoreChoices : getExpenses(raw) = <<>> => ~Loadable(raw)
  /\ JsonArray(<<ItemOld, NullItem>>) \in StoreChoices

\* the store holds exactly the list q
StoreHolds(q) == store.kind = "array" /\ store.items = q

\* C16: write after every mutation.  The store is read once, at startup (no
\* step returns to the startup position); every add, delete and import that
\* changes the list writes the new list; and whenever no render is pending
\* (the save effect has run for the list in memory) the store holds exactly
\* that list.  Writes succeed (no storage quota fault).
WriteAfterMutation ==
  [][/\ pc # "mount" => pc' # "mount"
     /\ LoadStep => (expenses' = SortDesc(getExpenses(store)) /\ expenses = <<>>)
     /\ (pc = "ready" /\ expenses' # expenses) =>
          (store'.kind = "array" /\ store'.items = expenses')
     /\ pc' = "ready" => (store'.kind = "array" /\ store'.items = expenses')]_vars

\* after a load, an add from the form and an import that added a record, the
\* store holds the three records of the list
WriteAfterMutationWitness ==
  /\ pc = "ready"
  /\ alert.msg = "success"
  /\ Len(expenses) = 3
  /\ \E k \in DOMAIN expenses :
       "amount" \in DOMAIN expenses[k] /\ expenses[k].amount = parseFloat("4")
  /\ StoreHolds(expenses)

(***************************************************************************)
(* Properties of the outcomes of an import                                 *)
(***************************************************************************)
\* the file content is JSON (it parses)
ValidJson(text) == text.kind \in {"object", "array"}

\* the parsed content fails shape validation: it is not an array, or one of
\* its elements is not a record with id and amount
FailsShape(text) ==
  \/ text.kind = "object"
  \/ /\ text.kind = "array"
     /\ \E i \in DOMAIN text.items :
          \/ IsNull(text.items[i])
          \/ Lacks(text.items[i], "id")
          \/ Lacks(text.items[i], "amount")

\* C17: parse failure and shape-validation failure of an import are distinct
\* outcomes: a file that is not JSON is reported as a parse error; a file
\* that is JSON is never reported as a parse error, and when it fails shape
\* validation it is reported as a format error.
ParseAndFormatDistinct ==
  [][\A k \in DOMAIN pending :
       LET text == imported' IN
       ImportStep(k) =>
         /\ text.kind = "garbage" => alert'.msg = "parse_error"
         /\ ValidJson(text) => alert'.msg # "parse_error"
         /\ (ValidJson(text) /\ FailsShape(text)) => Rejected(alert'.msg)]_vars

\* the file content parses and passes validation, and every candidate is a
\* record whose id the list A already holds
NothingNew(A, text) ==
  /\ text.kind = "array"
  /\ \A i \in DOMAIN text.items : ~IsNull(text.items[i])
  /\ ~ValidationFails(text.items)
  /\ \A i \in DOMAIN text.items : IdOf(text.items[i]) \in IdsIn(A)

\* C18: import with no new records.  When the content parses and validates
\* and the id of every candidate is already in the list the merge is given,
\* the import is not reported as an error, reports zero added records, and
\* leaves the list in memory (contents and order) and the store as they are.
ImportNoNewRecords ==
  [][\A k \in DOMAIN pending :
       (ImportStep(k) /\ NothingNew(pending[k], imported')) =>
         /\ alert'.msg = "no_new"
         /\ alert'.added = 0
         /\ expenses' = expenses
         /\ store' = store]_vars

\* a file with another record of the id "a" was imported: nothing was added,
\* the record the list had under that id is still the one it holds
ImportNoNewRecordsWitness ==
  /\ alert.msg = "no_new"
  /\ alert.added = 0
  /\ imported = JsonArray(<<ItemA2>>)
  /\ ItemA \in Range(expenses)
  /\ ItemA2 \notin Range(expenses)

(***************************************************************************)
(* Properties of the category breakdown                                    *)
(***************************************************************************)
RECURSIVE SumValues(_)
SumValues(data) ==
  IF data = <<>> THEN 0 ELSE Head(data).value + SumValues(Tail(data))

\* the filtered transactions of the kind the view mode names
MatchingKind == SelectSeq(dateFilteredExpenses, LAMBDA e : TypeOf(e) = viewMode)

\* C19: category breakdown.  With view mode expense or income the breakdown
\* has exactly one entry per category that occurs among the filtered
\* transactions of that kind, the value of an entry is the sum of the amounts
\* of those transactions of its category, the entries are in descending
\* order of value, and the values sum to the total of that kind; with view
\* mode overview the breakdown is empty.
CategoryBreakdown ==
  LET pie == pieChartData
      cats == {MatchingKind[k].category : k \in DOMAIN MatchingKind}
  IN  IF viewMode = "overview" THEN pie = <<>>
      ELSE /\ Len(pie) = Cardinality(cats)
           /\ {pie[i].originalId : i \in DOMAIN pie} = cats
           /\ \A i \in DOMAIN pie :
                pie[i].value =
                  SumAmounts(SelectSeq(MatchingKind,
                                       LAMBDA e : e.category = pie[i].originalId))
           /\ \A i, j \in DOMAIN pie : i < j => pie[i].value >= pie[j].value
           /\ SumValues(pie) = SumAmounts(MatchingKind)
           /\ SumValues(pie) = IF viewMode = "income" THEN totals.totalIncome
                                                       ELSE totals.totalExpense

\* the incomes of a range with two categories: the category of the first
\* filtered income has the smaller sum and is the second entry
CategoryBreakdownWitness ==
  /\ viewMode = "income"
  /\ Len(pieChartData) = 2
  /\ pieChartData[1].value > pieChartData[2].value
  /\ MatchingKind[1].category = pieChartData[2].originalId

RECURSIVE Reverse(_)
Reverse(q) == IF q = <<>> THEN <<>> ELSE Append(Reverse(Tail(q)), Head(q))

\* the weekday of a timestamp counted from Monday = 0 (day 0 is a Saturday)
MondayIndex(t) == (t.day + 5) % 7

\* C21: trend series shape.  The series has exactly 1 bucket for day, 7
\* buckets Monday..Sunday for week and 12 buckets January..December for
\* year, in chronological order (sort index ascending); every filtered
\* transaction adds its amount to the bucket of its own weekday (Monday = 0)
\* or month and to no other, and the series is the same for the filtered
\* list in reverse order.
TrendShape ==
  LET data == trendData.data
      list == dateFilteredExpenses
      sum(i) == data[i].income + data[i].expense
  IN  /\ range = "day" => Len(data) = 1
      /\ range = "week" =>
           /\ ~trendData.fault
           /\ Len(data) = 7
           /\ \A i \in 1..7 :
                /\ data[i].sortIndex = i - 1
                /\ sum(i) = SumAmounts(SelectSeq(list,
                              LAMBDA e : MondayIndex(e.date) = i - 1))
      /\ range = "year" =>
           /\ ~trendData.fault
           /\ Len(data) = 12
           /\ \A i \in 1..12 :
                /\ data[i].sortIndex = i
                /\ sum(i) = SumAmounts(SelectSeq(list,
                              LAMBDA e : MonthTable[e.date.day] = i - 1))
      /\ range \in {"day", "week", "year"} =>
           TrendData(Reverse(list), range, resolved.start, now) = trendData

\* the week of Monday 2025-01-27: the income of Sunday 2025-02-02 is in the
\* seventh bucket
TrendShapeWitness ==
  /\ range = "week"
  /\ Len(trendData.data) = 7
  /\ TxBonus \in Range(dateFilteredExpenses)
  /\ trendData.data[7].income = TxBonus.amount
  /\ trendData.data[1].income = 0

ClockId == ToString(now.day) \o "." \o ToString(now.ms)

\* this step adds one record to the list and is neither the load nor an
\* import
AddStep ==
  /\ pc = "ready"
  /\ pending' = pending
  /\ Len(expenses') = Len(expenses) + 1

\* C23: amount positivity at creation.  The add button creates a record only
\* when the entered amount parses to a number greater than zero: with an
\* empty, zero or negative amount the list and the store stay as they are,
\* and the record an add creates has amount > 0, the number entered.
AmountPositiveAtCreation ==
  [][/\ \A a \in AmountInputs, sel \in SelDates :
          (clickAdd(a, sel) /\ (a = "" \/ parseFloat(a) <= 0)) =>
            (expenses' = expenses /\ store' = store)
     /\ AddStep =>
          \E k \in DOMAIN expenses' :
            /\ IdOf(expenses'[k]) = ClockId
            /\ expenses'[k].amount > 0
            /\ \E a \in AmountInputs \ {""} : expenses'[k].amount = parseFloat(a)
            /\ RemoveAt(expenses', k) = expenses]_vars

\* the form has just made a record: its amount is the positive number
\* entered
AmountPositiveAtCreationWitness ==
  /\ alert = NoAlert
  /\ \E k \in DOMAIN expenses :
       /\ IdOf(expenses[k]) = ClockId
       /\ expenses[k].amount = parseFloat("4")
       /\ expenses[k].amount > 0

(***************************************************************************)
(* Properties of the categories and of the entry form                      *)
(***************************************************************************)
RegisteredIds ==
  {"food", "transport", "shopping", "housing", "entertainment", "medical",
   "study", "other", "salary", "bonus", "investment", "other_income"}

\* the ids looked up: the registered ones, the categories of the records in
\* memory, an id no category has, the empty id and undefined
LookupIds ==
  RegisteredIds \cup {expenses[k].category : k \in DOMAIN expenses}
    \cup {"gift", "", Missing}

\* C24: category fallback.  Looking up an id that is not registered returns
\* the fallback definition, the category other, and looking up a registered
\* id returns the definition of that id; the name of every entry of the
\* breakdown is the label so found.
CategoryFallback ==
  /\ \A id \in LookupIds :
       LET c == getCategoryConfig(id)
       IN  /\ \E k \in DOMAIN CATEGORIES : CATEGORIES[k] = c
           /\ id \in RegisteredIds => c.id = id
           /\ id \notin RegisteredIds => (c.id = "other" /\ c = EXPENSE_CATEGORIES[8])
  /\ {CATEGORIES[k].id : k \in DOMAIN CATEGORIES} = RegisteredIds
  /\ \A k \in DOMAIN pieChartData :
       pieChartData[k].name = getCategoryConfig(pieChartData[k].originalId).label

\* the breakdown shows an imported income of a category that is not
\* registered under the label of the category other
CategoryFallbackWitness ==
  /\ viewMode = "income"
  /\ \E k \in DOMAIN pieChartData :
       /\ pieChartData[k].originalId = "gift"
       /\ pieChartData[k].name = EXPENSE_CATEGORIES[8].label
       /\ EXPENSE_CATEGORIES[8].id = "other"

(***************************************************************************)
(* Properties of the application across asynchronous steps                 *)
(***************************************************************************)
\* C25: no lost update across an asynchronous import.  When the callback of
\* a file read merges, every record in memory just before it is still in
\* memory after it, and every id in memory after it was in memory just
\* before it or is an id of the file: an add or a delete made since the file
\* was chosen is kept.
NoLostUpdateAcrossImport ==
  [][\A k \in DOMAIN pending :
       (ImportStep(k) /\ Merged(alert'.msg)) =>
         /\ IdsIn(expenses) \subseteq IdsIn(expenses')
         /\ IdsIn(expenses') \subseteq IdsIn(expenses) \cup IdsIn(imported'.items)]_vars

\* the records the store holds, as the load is to deliver them
StoredRecords(raw) ==
  IF raw.kind = "array"
    THEN {Migrated(raw.items[k]) : k \in {j \in DOMAIN raw.items : ~IsNull(raw.items[j])}}
    ELSE {}

\* C26: startup does not clobber the store.  The steps of startup, the first
\* commit with its load and save effects and the commit of the loaded list,
\* leave in the store every record it held before them.
StartupKeepsStore ==
  [][(pc \in {"mount", "loaded"}) =>
       (StoredRecords(store) \subseteq StoredRecords(store'))]_vars

(***************************************************************************)
(* Properties of the dates the application computes                        *)
(***************************************************************************)
\* the local calendar date of a timestamp
CalendarDate(t) == <<getFullYear(t), getMonth(t) + 1, getDate(t)>>

\* C27: the created transaction lands on the selected date.  Whatever the
\* current date, the timestamp of the record an add creates falls on the
\* year, month and day selected in the form.
CreatedOnSelectedDate ==
  [][AddStep =>
       \E k \in DOMAIN expenses' :
         /\ RemoveAt(expenses', k) = expenses
         /\ CalendarDate(expenses'[k].date) \in SelDates]_vars

\* the calendar month of a timestamp, counted in months
MonthIndex(t) == getFullYear(t) * 12 + getMonth(t)

\* C28: month navigation steps by exactly one calendar month.  An arrow of
\* the list view, and an arrow of the statistics with granularity month,
\* moves the reference date to the calendar month just after or just before
\* the one it was in, so that forward and then backward is the month of
\* departure.  (A step that puts the reference date of the statistics back
\* to the current instant is the range selector, not an arrow.)
MonthStepExact ==
  [][/\ listCurrentDate' # listCurrentDate =>
          \E direction \in {-1, 1} :
            /\ listCurrentDate' = setMonth(listCurrentDate, getMonth(listCurrentDate) + direction)
            /\ MonthIndex(listCurrentDate') = MonthIndex(listCurrentDate) + direction
     /\ (/\ range = "month" /\ range' = "month"
         /\ currentDate' # currentDate
         /\ currentDate' # now) =>
          \E direction \in {-1, 1} :
            /\ currentDate' = NavigatedDate(currentDate, "month", direction)
            /\ MonthIndex(currentDate') = MonthIndex(currentDate) + direction]_vars

(***************************************************************************)
(* Properties of the ids                                                   *)
(***************************************************************************)
\* C29: id uniqueness.  After the load at startup and any sequence of adds,
\* deletes and imports, no two records in memory have the same id.
IdsUnique ==
  \A i, j \in DOMAIN expenses : i # j => IdOf(expenses[i]) # IdOf(expenses[j])

(***************************************************************************)
(* Properties of the entry form                                            *)
(***************************************************************************)
\* the ids of the categories of a kind
CategoryIdsOf(type) ==
  IF type = "expense"
    THEN {EXPENSE_CATEGORIES[k].id : k \in DOMAIN EXPENSE_CATEGORIES}
    ELSE {INCOME_CATEGORIES[k].id : k \in DOMAIN INCOME_CATEGORIES}

\* C30: kind and category of the entry form agree.  After any sequence of
\* kind toggles and category selections the selected category is one of the
\* categories of the selected kind, and every record the add has created has
\* a category of its own kind.
KindCategoryConsistent ==
  /\ selectedCategory \in CategoryIdsOf(transactionType)
  /\ \A k \in DOMAIN expenses :
       expenses[k].category \in CategoryIdsOf(expenses[k].type)

\* after toggles and selections the form stands on an income category other
\* than the first, and records of both kinds have been created
KindCategoryConsistentWitness ==
  /\ transactionType = "income"
  /\ selectedCategory = "other_income"
  /\ \E k \in DOMAIN expenses :
       expenses[k].type = "income" /\ expenses[k].category = "other_income"
  /\ \E k \in DOMAIN expenses :
       expenses[k].type = "expense" /\ expenses[k].category = "transport"

====
